---- MODULE Spec2Model ----
(***************************************************************************)
(* Order creation, stock reservation and idempotency of the Greencart      *)
(* backend (app/services/orders.py), over the tables of app/models.py.     *)
(*                                                                         *)
(* A create_order call suspends at its awaits only: the existing-order     *)
(* SELECT, the products SELECT and the COMMIT.  Each of the three is one   *)
(* action; the synchronous code between two awaits belongs to the action   *)
(* of the await that precedes it.  Calls of different requests interleave  *)
(* at these points, each in its own session (app/database.py get_db).      *)
(***************************************************************************)
EXTENDS Integers, Sequences, FiniteSets, TLC

(* ------------------------------ bounds -------------------------------- *)
NumUsers == 2
NumReqs == 2
NumCalls == 2
NumKeys == 2
InitStock == 3
MaxLines == 2
MaxQty == 2

(* ------------------------- program constants -------------------------- *)
None == -1
MinQuantity == 1

Users == 1..NumUsers
Reqs == 1..NumReqs
KeyNames == <<"k1", "k2", "k3", "k4">>
Keys == {KeyNames[i] : i \in 1..NumKeys}
Placeholder == "{{$uuid}}"
BlankKeys == {"", " "}

(* A key a dict does not hold, a header a request does not carry. *)
Absent == "<absent>"
KeyInputs == Keys \cup BlankKeys \cup {Placeholder, Absent}
UuidPool == <<"uuid-1", "uuid-2", "uuid-3", "uuid-4">>
Quantities == MinQuantity..MaxQty

(* The catalogue: rows 1..3 exist, id 4 names no row. *)
ProductIds == {1, 2, 3}
RequestIds == {1, 2, 3, 4}

OrderItemInput == [product_id : RequestIds, quantity : Quantities]

RECURSIVE SeqsUpTo(_, _)
SeqsUpTo(S, n) ==
    IF n = 0 THEN {<<>>}
    ELSE LET shorter == SeqsUpTo(S, n - 1)
         IN  shorter \cup {Append(s, x) : s \in {t \in shorter : Len(t) = n - 1}, x \in S}

(* OrderCreate: a non-empty list of items (ensure_items). *)
OrderCreate == SeqsUpTo(OrderItemInput, MaxLines) \ {<<>>}

(* The tables (products, orders, order_lines, cart), the uuid4 values  *)
(* drawn, the create_order calls (req) with the responses of their     *)
(* endpoint (resp), and the calls of the other endpoints (call).       *)
VARIABLES products, orders, order_lines, uuids, req, call, cart, resp

vars == <<products, orders, order_lines, uuids, req, call, cart, resp>>
db == <<products, orders, order_lines>>

NoItems == <<>>
NoPending == [order |-> <<>>, lines |-> <<>>, stock |-> <<>>]
NoResult == [kind |-> "none", created |-> FALSE, order_id |-> 0, msg |-> "", ids |-> <<>>]
Idle == [pc |-> "idle", user |-> 0, key_in |-> "", key |-> "", items |-> NoItems,
         pending |-> NoPending, result |-> NoResult]

(* A call of a payment endpoint or of the producer's product endpoint: *)
(* the session's copy of the order as it was loaded and as the handler *)
(* left it, and what the call answered.                                *)
Calls == 1..NumCalls
NoCopy == [status |-> "", payment_provider |-> "", payment_reference |-> ""]
NoAnswer == [kind |-> "none", msg |-> "", status |-> "", payment_reference |-> ""]
NoCall == [pc |-> "idle", handler |-> "", order_id |-> 0, product_id |-> 0,
          provider |-> "", event |-> "", signature |-> "",
          intent |-> "", object_id |-> "", loaded |-> NoCopy, copy |-> NoCopy, late |-> "",
          answer |-> NoAnswer]

(* The response of the orders endpoint to a request: where it is      *)
(* after create_order has returned, the cart items clear_cart has     *)
(* read, the HTTP status and what became of the confirmation email.   *)
NoResponse == [pc |-> "wait", items |-> {}, status |-> 0, email |-> ""]

(* The cart_items rows of a user, by product; every user comes with   *)
(* products 1 and 2 in the cart.                                      *)
InitialCart == [u \in Users |-> {1, 2}]

(* The stock the catalogue starts with. *)
InitialStock(p) == IF p \in {1, 2} THEN InitStock ELSE 1

(* The catalogue the producers have filled before the first order. *)
Catalogue ==
    [p \in ProductIds |->
        CASE p = 1 -> [title |-> "Apples", status |-> "published", is_published |-> TRUE,
                       stock |-> InitialStock(p), price_cents |-> 500,
                       promo_price_cents |-> 400]
          [] p = 2 -> [title |-> "Honey", status |-> "published", is_published |-> TRUE,
                       stock |-> InitialStock(p), price_cents |-> 1000,
                       promo_price_cents |-> None]
          [] OTHER -> [title |-> "Cider", status |-> "draft", is_published |-> FALSE,
                       stock |-> InitialStock(p), price_cents |-> 300,
                       promo_price_cents |-> None]]

Init ==
    /\ products = Catalogue
    /\ orders = <<>>
    /\ order_lines = <<>>
    /\ uuids = 0
    /\ req = [r \in Reqs |-> Idle]
    /\ call = [c \in Calls |-> NoCall]
    /\ cart = InitialCart
    /\ resp = [r \in Reqs |-> NoResponse]

(* ------------------------------ helpers ------------------------------- *)

(* str.strip() on the keys of the model. *)
Strip(k) == IF k \in BlankKeys THEN "" ELSE k

(* endpoints/orders.py 26-27: the request has no Idempotency-Key. *)
HeaderRequired(k) == k = Absent

KeyRequired_EmptyOnly(k) == k = ""

(* Lines 69-72: the key is missing or blank. *)
KeyRequired(k) == k = "" \/ Strip(k) = ""

ExistingOrder_ByReference(ords, u, k) ==
    {o \in DOMAIN ords : ords[o].user_id = u /\ ords[o].payment_reference = k}

ExistingOrder_AnyUser(ords, u, k) == {o \in DOMAIN ords : ords[o].idempotency_key = k}

(* Lines 76-82: the orders of this user with this key. *)
ExistingOrder(ords, u, k) ==
    {o \in DOMAIN ords : ords[o].user_id = u /\ ords[o].idempotency_key = k}

(* A set of integers as the sorted list sorted(...) gives. *)
RECURSIVE Sorted(_)
Sorted(S) ==
    IF S = {} THEN <<>>
    ELSE LET m == CHOOSE x \in S : \A y \in S : x <= y
         IN  <<m>> \o Sorted(S \ {m})

(* Line 86. *)
ItemIds(items) == {items[i].product_id : i \in DOMAIN items}

MissingIds_AllRequested(items, prods) ==
    IF ItemIds(items) \ DOMAIN prods # {} THEN ItemIds(items) ELSE {}

(* Line 98: the requested ids the products SELECT returned no row for. *)
MissingIds(items, prods) == ItemIds(items) \ DOMAIN prods

(* Line 104: the product can be bought. *)
Purchasable(product) == product.status = "published" /\ product.is_published

InStock_AnyLeft(product, quantity) == ~(product.stock <= 0)

(* Line 106: the product's stock covers the line. *)
InStock(product, quantity) == ~(product.stock < quantity)

RECURSIVE ValidateItems_StockFirst(_, _, _)
ValidateItems_StockFirst(items, prods, i) ==
    IF i > Len(items) THEN [kind |-> "ok", msg |-> "", ids |-> <<>>]
    ELSE LET product == prods[items[i].product_id]
         IN  IF ~InStock(product, items[i].quantity)
             THEN [kind |-> "OutOfStockError", msg |-> "insufficient stock",
                   ids |-> <<items[i].product_id>>]
             ELSE IF ~Purchasable(product)
             THEN [kind |-> "ProductUnavailableError", msg |-> "not available",
                   ids |-> <<items[i].product_id>>]
             ELSE ValidateItems_StockFirst(items, prods, i + 1)

(* Lines 102-107: the first failing line decides; "ok" when none fails. *)
RECURSIVE ValidateItems(_, _, _)
ValidateItems(items, prods, i) ==
    IF i > Len(items) THEN [kind |-> "ok", msg |-> "", ids |-> <<>>]
    ELSE LET product == prods[items[i].product_id]
         IN  IF ~Purchasable(product)
             THEN [kind |-> "ProductUnavailableError", msg |-> "not available",
                   ids |-> <<items[i].product_id>>]
             ELSE IF ~InStock(product, items[i].quantity)
             THEN [kind |-> "OutOfStockError", msg |-> "insufficient stock",
                   ids |-> <<items[i].product_id>>]
             ELSE ValidateItems(items, prods, i + 1)

SalePrice_Regular(product) == product.price_cents

ReferencePrice_Promo(product) ==
    IF product.promo_price_cents # None THEN product.promo_price_cents ELSE None

(* Lines 125-126. *)
SalePrice(product) ==
    IF product.promo_price_cents # None THEN product.promo_price_cents
    ELSE product.price_cents

ReferencePrice(product) ==
    IF product.promo_price_cents # None THEN product.price_cents ELSE None

(* Lines 130-140: the line written for one item. *)
NewLine(product_id, product, quantity) ==
    [order_id |-> 0,
     product_id |-> product_id,
     product_title |-> product.title,
     quantity |-> quantity,
     unit_price_cents |-> SalePrice(product),
     reference_price_cents |->
        IF ReferencePrice(product) # None THEN ReferencePrice(product)
        ELSE product.price_cents,
     subtotal_cents |-> SalePrice(product) * quantity]

AddToTotals_RegularPrice(order, product, line) ==
    [order EXCEPT !.total_amount_cents = @ + product.price_cents * line.quantity,
                  !.total_items = @ + line.quantity]

(* Lines 141-142: the running totals of the order. *)
AddToTotals(order, product, line) ==
    [order EXCEPT !.total_amount_cents = @ + line.subtotal_cents,
                  !.total_items = @ + line.quantity]

(* Line 145, on the session's copy of the product. *)
DecrementStock(stock, quantity) == stock - quantity

(* Lines 109-145: the order header, then one pass over the items that   *)
(* appends a line, adds to the totals and decrements the session's copy *)
(* of the product.  acc.stock maps each touched product to its new      *)
(* stock, the value the flush writes.                                   *)
RECURSIVE AssembleLines(_, _, _, _)
AssembleLines(items, prods, i, acc) ==
    IF i > Len(items) THEN acc
    ELSE LET pid == items[i].product_id
             qty == items[i].quantity
             line == NewLine(pid, prods[pid], qty)
             cur == IF pid \in DOMAIN acc.stock THEN acc.stock[pid] ELSE prods[pid].stock
             upd == [p \in DOMAIN acc.stock \cup {pid} |->
                       IF p = pid THEN DecrementStock(cur, qty) ELSE acc.stock[p]]
         IN  AssembleLines(items, prods, i + 1,
                [order |-> AddToTotals(acc.order, prods[pid], line),
                 lines |-> Append(acc.lines, line),
                 stock |-> upd])

NewOrder(u, k, provider) ==
    [user_id |-> u, status |-> "pending", total_amount_cents |-> 0, total_items |-> 0,
     payment_provider |-> provider, payment_reference |-> "", idempotency_key |-> k]

AssembleOrder(u, k, items, prods) ==
    AssembleLines(items, prods, 1,
        [order |-> NewOrder(u, k, "manual"), lines |-> <<>>, stock |-> <<>>])

UniqueKeyFree_NotUnique(ords, k) == TRUE

(* ux_orders_idempotency_key: the key is free in the committed table. *)
UniqueKeyFree(ords, k) == \A o \in DOMAIN ords : ords[o].idempotency_key # k

(* The flush of line 149: INSERT the order and its lines, UPDATE the    *)
(* stock of every product the session changed to the session's value.  *)
InsertOrder(ords, order) == Append(ords, order)

InsertLines(lines, new, order_id) ==
    lines \o [i \in DOMAIN new |-> [new[i] EXCEPT !.order_id = order_id]]

UpdateStock(prods, stock) ==
    [p \in DOMAIN prods |->
        IF p \in DOMAIN stock THEN [prods[p] EXCEPT !.stock = stock[p]] ELSE prods[p]]

(* The call of request r ends: it returns or raises, its session closes. *)
Result(kind, created, order_id, msg, ids) ==
    [kind |-> kind, created |-> created, order_id |-> order_id, msg |-> msg, ids |-> ids]

Done(r, result) ==
    [req EXCEPT ![r].pc = "done", ![r].pending = NoPending, ![r].result = result]

(* uuid4().hex: a value no client key and no earlier call's value equals. *)
UuidHex_Fixed(n) == UuidPool[1]

UuidHex(n) == UuidPool[n + 1]

(* ------------------------------ actions ------------------------------- *)

(* Users and client keys are interchangeable, so the calls name them in *)
(* order: a call is by a user already seen or by the next one, and its  *)
(* key is one already sent or the next one.                             *)
KeyIndex(k) == IF k \in Keys THEN CHOOSE i \in 1..NumKeys : KeyNames[i] = k ELSE 0

Entered == {q \in Reqs : req[q].pc # "idle"}

InOrder(u, k) ==
    /\ \A v \in Users : v < u => \E q \in Entered : req[q].user = v
    /\ \A i \in 1..NumKeys : i < KeyIndex(k) => \E q \in Entered : req[q].key_in = KeyNames[i]

(* endpoints/orders.py 26-27 and lines 69-84: a call enters; without   *)
(* the header the endpoint answers 400, else create_order checks the   *)
(* key, replaces it when it is the placeholder, and runs the           *)
(* existing-order SELECT.  Request slots are taken in order, each by   *)
(* one call.  A call rejected for its key never reads order_in, and    *)
(* its record keeps none.                                              *)
Lookup(r, u, k, items) ==
    /\ req[r].pc = "idle"
    /\ \A q \in Reqs : q < r => req[q].pc # "idle"
    /\ InOrder(u, k)
    /\ LET key == IF k = Placeholder THEN UuidHex(uuids) ELSE k
           existing == ExistingOrder(orders, u, key)
           entered == [req EXCEPT ![r].user = u, ![r].key_in = k, ![r].key = key]
           ends(result) == [entered EXCEPT ![r].pc = "done", ![r].result = result]
       IN  IF HeaderRequired(k)
           THEN /\ req' = ends(Result("HTTPException", FALSE, 0, "key required", <<>>))
                /\ uuids' = uuids
           ELSE IF KeyRequired(k)
           THEN /\ req' = ends(Result("OrderValidationError", FALSE, 0, "key required", <<>>))
                /\ uuids' = uuids
           ELSE /\ uuids' = IF k = Placeholder THEN uuids + 1 ELSE uuids
                /\ req' = IF existing # {}
                          THEN [ends(Result("returned", FALSE, CHOOSE o \in existing : TRUE,
                                            "", <<>>)) EXCEPT ![r].items = items]
                          ELSE [entered EXCEPT ![r].pc = "fetch", ![r].items = items]
    /\ UNCHANGED <<db, call, cart, resp>>

(* Lines 86-147: the products SELECT, the missing-id check, validation  *)
(* and the assembly of the order in the session.                        *)
Fetch(r) ==
    /\ req[r].pc = "fetch"
    /\ LET items == req[r].items
           missing_ids == MissingIds(items, products)
           verdict == ValidateItems(items, products, 1)
       IN  req' = IF ItemIds(items) = {}
                  THEN Done(r, Result("OrderValidationError", FALSE, 0, "no product", <<>>))
                  ELSE IF missing_ids # {}
                  THEN Done(r, Result("ProductUnavailableError", FALSE, 0, "not found",
                                      Sorted(missing_ids)))
                  ELSE IF verdict.kind # "ok"
                  THEN Done(r, Result(verdict.kind, FALSE, 0, verdict.msg, verdict.ids))
                  ELSE [req EXCEPT ![r].pc = "commit",
                                   ![r].pending = AssembleOrder(req[r].user, req[r].key,
                                                                items, products)]
    /\ UNCHANGED <<db, uuids, call, cart, resp>>

(* Lines 149-154: the commit succeeds, every product the session       *)
(* changed still being there; the order is read back.                  *)
Commit(r) ==
    /\ req[r].pc = "commit"
    /\ UniqueKeyFree(orders, req[r].key)
    /\ DOMAIN req[r].pending.stock \subseteq DOMAIN products
    /\ orders' = InsertOrder(orders, req[r].pending.order)
    /\ order_lines' = InsertLines(order_lines, req[r].pending.lines, Len(orders) + 1)
    /\ products' = UpdateStock(products, req[r].pending.stock)
    /\ req' = Done(r, Result("created", TRUE, Len(orders) + 1, "", <<>>))
    /\ UNCHANGED <<uuids, call, cart, resp>>

(* Line 149: the INSERT breaks ux_orders_idempotency_key; the session   *)
(* rolls back and IntegrityError leaves create_order uncaught.          *)
CommitConflict(r) ==
    /\ req[r].pc = "commit"
    /\ ~UniqueKeyFree(orders, req[r].key)
    /\ req' = Done(r, Result("IntegrityError", FALSE, 0, "duplicate key", <<>>))
    /\ UNCHANGED <<db, uuids, call, cart, resp>>

CommitFail_Partial(r) ==
    /\ req[r].pc = "commit"
    /\ products' = UpdateStock(products, req[r].pending.stock)
    /\ req' = Done(r, Result("OperationalError", FALSE, 0, "commit failed", <<>>))
    /\ UNCHANGED <<orders, order_lines, uuids, call, cart, resp>>

(* Line 149: the commit fails in the persistence layer (connection lost, *)
(* lock wait timeout); the transaction is rolled back.                   *)
CommitFail(r) ==
    /\ req[r].pc = "commit"
    /\ req' = Done(r, Result("OperationalError", FALSE, 0, "commit failed", <<>>))
    /\ UNCHANGED <<db, uuids, call, cart, resp>>


(* ------------------------ payments and products ----------------------- *)

(* PaymentInitRequest.provider, PaymentWebhookPayload.event and the     *)
(* event types of handle_stripe_event, with one it does not handle.     *)
Providers == {"stripe", "paygreen", "manual"}
WebhookEvents == {"payment_succeeded", "payment_failed", "payment_refunded"}
StripeEvents == {"checkout.session.completed", "charge.refunded", "payment_intent.canceled",
                 "checkout.session.expired", "payment_intent.payment_failed",
                 "invoice.paid"}

(* models.py 58-65. *)
OrderStatus == {"draft", "pending", "paid", "shipped", "completed", "cancelled", "refunded"}

(* payload["payment_intent"], and the id of a Stripe object. *)
Intents == {Absent, "pi_1"}
ObjectIds == {Absent, "cs_evt"}

(* Order ids as integers and as the text a Stripe object carries; the   *)
(* last one names no order.                                             *)
OrderIds == 1..(NumReqs + 1)
IdText == <<"1", "2", "3", "4">>
MetadataIds == {Absent, "abc", IdText[1], IdText[NumReqs + 1]}
ClientReferenceIds == {Absent, "", "abc", IdText[2]}

(* int(text): the id, or 0 where int() raises. *)
ParseInt(text) ==
    IF \E i \in DOMAIN IdText : IdText[i] = text
    THEN CHOOSE i \in DOMAIN IdText : IdText[i] = text
    ELSE 0

StripeOrderId_FirstOrder(metadata_id, client_reference_id) ==
    IF metadata_id # Absent /\ ParseInt(metadata_id) # 0 THEN ParseInt(metadata_id) ELSE 1

(* payments.py 119-134: the order id of a Stripe object, 0 for None. *)
StripeOrderId(metadata_id, client_reference_id) ==
    LET from_metadata == IF metadata_id # Absent THEN ParseInt(metadata_id) ELSE 0
    IN  IF from_metadata = 0 /\ client_reference_id \notin {Absent, ""}
        THEN ParseInt(client_reference_id)
        ELSE from_metadata

(* What stripe.checkout.Session.create does for an order that may pay. *)
StripeOutcomes == {"not configured", "error", "session", "session without url"}
StripeSessionIds == <<"cs_1", "cs_2", "cs_3">>

(* The X-Payment-Signature header; the payload's signature is the first. *)
PayloadSignature == "sig-12345"
SignatureHeaders == {Absent, "", PayloadSignature, "sig-67890"}

SignatureRejected_AbsentOnly(signature) == signature \in {Absent, ""}

(* endpoints/payments.py 42-44. *)
SignatureRejected(signature) ==
    signature \in {Absent, ""} \/ signature # PayloadSignature

CopyOf(order) ==
    [status |-> order.status, payment_provider |-> order.payment_provider,
     payment_reference |-> order.payment_reference]

Raise(msg) == [error |-> msg, copy |-> NoCopy, late |-> ""]
Proceed(copy, late) == [error |-> "", copy |-> copy, late |-> late]

(* payments.py 76. *)
SandboxReference(provider, order_id) == provider \o "_session_" \o IdText[order_id]

InitPaymentSession_AnyStatus(copy, order_id, provider, outcome, session_id) ==
    Proceed([copy EXCEPT !.payment_provider = provider,
                         !.payment_reference = SandboxReference(provider, order_id)], "")

(* payments.py 22-81, up to its commit: the checks, then the provider  *)
(* and the reference set on the session's copy.  late is the error     *)
(* raised after the commit.                                            *)
InitPaymentSession(copy, order_id, provider, outcome, session_id) ==
    IF copy.status \notin {"pending", "draft"} THEN Raise("Order already processed")
    ELSE IF provider = "stripe"
    THEN IF outcome = "not configured" THEN Raise("Stripe not configured")
         ELSE IF outcome = "error" THEN Raise("Stripe error")
         ELSE Proceed([copy EXCEPT !.payment_provider = provider,
                                   !.payment_reference = session_id],
                      IF outcome = "session without url"
                      THEN "Stripe session missing URL" ELSE "")
    ELSE Proceed([copy EXCEPT !.payment_provider = provider,
                              !.payment_reference = SandboxReference(provider, order_id)],
                 "")

UpdateOrderStatus_StatusOnly(copy, status, reference) == [copy EXCEPT !.status = status]

UpdateOrderStatus_Guarded(copy, status, reference) ==
    IF copy.status \in {"completed", "cancelled", "refunded"} THEN copy
    ELSE [copy EXCEPT !.status = status,
                      !.payment_reference = IF reference # "" THEN reference ELSE @]

(* orders.py 163-175, up to its commit; "" is the reference None. *)
UpdateOrderStatus(copy, status, reference) ==
    [copy EXCEPT !.status = status,
                 !.payment_reference = IF reference # "" THEN reference ELSE @]

HandleWebhook_AnyProvider(copy, provider, event, intent) ==
    Proceed(UpdateOrderStatus(copy, IF event = "payment_succeeded" THEN "paid"
                                    ELSE IF event = "payment_failed" THEN "cancelled"
                                    ELSE "refunded", ""), "")

(* payments.py 92-108. *)
HandleWebhook(copy, provider, event, intent) ==
    IF copy.payment_provider # provider THEN Raise("Provider mismatch")
    ELSE IF event = "payment_succeeded"
    THEN Proceed(UpdateOrderStatus(copy, "paid",
                    IF intent = Absent THEN copy.payment_reference ELSE intent), "")
    ELSE IF event = "payment_failed"
    THEN Proceed(UpdateOrderStatus(copy, "cancelled", ""), "")
    ELSE IF event = "payment_refunded"
    THEN Proceed(UpdateOrderStatus(copy, "refunded", ""), "")
    ELSE Raise("Unknown event")

HandleStripeEvent_IgnoreUnknown(copy, event_type, intent, object_id) ==
    IF event_type = "checkout.session.completed"
    THEN Proceed(UpdateOrderStatus(copy, "paid", IF intent # Absent THEN intent ELSE ""), "")
    ELSE IF event_type \in {"charge.refunded", "payment_intent.canceled"}
    THEN Proceed(UpdateOrderStatus(copy, "refunded", ""), "")
    ELSE IF event_type \in {"checkout.session.expired", "payment_intent.payment_failed"}
    THEN Proceed(UpdateOrderStatus(copy, "cancelled", ""), "")
    ELSE Proceed(copy, "")

(* payments.py 142-158. *)
HandleStripeEvent(copy, event_type, intent, object_id) ==
    IF event_type = "checkout.session.completed"
    THEN LET reference == IF intent \notin {Absent, ""} THEN intent
                          ELSE IF object_id # Absent THEN object_id ELSE ""
         IN  Proceed(UpdateOrderStatus(copy, "paid", reference), "")
    ELSE IF event_type \in {"charge.refunded", "payment_intent.canceled"}
    THEN Proceed(UpdateOrderStatus(copy, "refunded", ""), "")
    ELSE IF event_type \in {"checkout.session.expired", "payment_intent.payment_failed"}
    THEN Proceed(UpdateOrderStatus(copy, "cancelled", ""), "")
    ELSE Raise("Unhandled Stripe event")

Flush_WholeRow(order, loaded, copy) ==
    [order EXCEPT !.status = copy.status, !.payment_provider = copy.payment_provider,
                  !.payment_reference = copy.payment_reference]

(* The UPDATE a commit flushes: the columns whose value on the copy    *)
(* differs from the value loaded, and no other column.                 *)
Flush(order, loaded, copy) ==
    [order EXCEPT
        !.status = IF copy.status # loaded.status THEN copy.status ELSE @,
        !.payment_provider =
            IF copy.payment_provider # loaded.payment_provider
            THEN copy.payment_provider ELSE @,
        !.payment_reference =
            IF copy.payment_reference # loaded.payment_reference
            THEN copy.payment_reference ELSE @]

Answer(kind, msg, status, payment_reference) ==
    [kind |-> kind, msg |-> msg, status |-> status, payment_reference |-> payment_reference]

Answered(c, handler, order_id, answer) ==
    [call EXCEPT ![c].pc = "done", ![c].handler = handler, ![c].order_id = order_id,
                ![c].answer = answer]

Loaded(c, handler, order_id, provider, event, intent, loaded, step) ==
    IF step.error # ""
    THEN [Answered(c, handler, order_id, Answer("PaymentProviderError", step.error, "", ""))
             EXCEPT ![c].provider = provider]
    ELSE [call EXCEPT ![c] = [pc |-> "commit", handler |-> handler, order_id |-> order_id,
                             product_id |-> 0, provider |-> provider, event |-> event,
                             signature |-> "", intent |-> intent, object_id |-> "",
                             loaded |-> loaded, copy |-> step.copy, late |-> step.late,
                             answer |-> NoAnswer]]

(* Calls take their slots in order, each slot one call. *)
NextCall(c) == call[c].pc = "idle" /\ \A d \in Calls : d < c => call[d].pc # "idle"

(* Why the Stripe endpoint turns a request away, or "verified". *)
StripeGates == {"Stripe not configured", "Missing Stripe signature", "Invalid webhook",
                "verified"}

(* endpoints/payments.py 18-33 and payments.py 22-62: the order is     *)
(* loaded for its user, the status is checked and the session is asked *)
(* of the provider; what is left is the commit.                        *)
InitPayment(c) ==
    /\ NextCall(c)
    /\ \E u \in Users, order_id \in OrderIds :
          IF order_id \notin DOMAIN orders \/ orders[order_id].user_id # u
          THEN call' = Answered(c, "init_payment", order_id,
                               Answer("HTTPException", "Order not found", "", ""))
          ELSE \E provider \in Providers :
                  LET loaded == CopyOf(orders[order_id])
                      outcomes == IF provider = "stripe" /\ loaded.status \in {"pending", "draft"}
                                  THEN StripeOutcomes ELSE {"session"}
                  IN  \E outcome \in outcomes :
                         call' = Loaded(c, "init_payment", order_id, provider, "", "", loaded,
                                       InitPaymentSession(loaded, order_id, provider, outcome,
                                                          StripeSessionIds[c]))
    /\ UNCHANGED <<db, uuids, req, cart, resp>>

(* endpoints/payments.py 36-51 and payments.py 84-108: the signature   *)
(* is compared, the order is loaded by id and the event is applied to  *)
(* the session's copy.  Only a payment_succeeded payload carries a     *)
(* payment_intent.                                                     *)
PaymentWebhook(c) ==
    /\ NextCall(c)
    /\ \E signature \in SignatureHeaders :
          IF SignatureRejected(signature)
          THEN call' = [Answered(c, "webhook", 0,
                                Answer("HTTPException", "Invalid signature", "", ""))
                           EXCEPT ![c].signature = signature]
          ELSE \E order_id \in OrderIds :
                  IF order_id \notin DOMAIN orders
                  THEN call' = [Answered(c, "webhook", order_id,
                                        Answer("PaymentProviderError", "Order not found",
                                               "", ""))
                                   EXCEPT ![c].signature = signature]
                  ELSE \E provider \in Providers, event \in WebhookEvents :
                          \E intent \in IF event = "payment_succeeded" THEN Intents
                                        ELSE {Absent} :
                             LET loaded == CopyOf(orders[order_id])
                             IN  call' = [Loaded(c, "webhook", order_id, provider, event,
                                                intent, loaded,
                                                HandleWebhook(loaded, provider, event,
                                                              intent))
                                            EXCEPT ![c].signature = signature]
    /\ UNCHANGED <<db, uuids, req, cart, resp>>

(* endpoints/payments.py 54-76 and payments.py 113-158: the request is *)
(* verified, the order id is read off the Stripe object, the order is  *)
(* loaded and the event type is applied to the session's copy.         *)
StripeWebhook(c) ==
    /\ NextCall(c)
    /\ \E gate \in StripeGates :
          IF gate # "verified"
          THEN call' = Answered(c, "stripe_webhook", 0, Answer("HTTPException", gate, "", ""))
          ELSE \E metadata_id \in MetadataIds, client_reference_id \in ClientReferenceIds :
                  LET order_id == StripeOrderId(metadata_id, client_reference_id)
                  IN  IF order_id = 0
                      THEN call' = Answered(c, "stripe_webhook", 0,
                                     Answer("PaymentProviderError",
                                            "Stripe webhook missing order reference", "", ""))
                      ELSE IF order_id \notin DOMAIN orders
                      THEN call' = Answered(c, "stripe_webhook", order_id,
                                     Answer("PaymentProviderError", "Order not found",
                                            "", ""))
                      ELSE \E event_type \in StripeEvents :
                              LET completed == event_type = "checkout.session.completed"
                                  loaded == CopyOf(orders[order_id])
                              IN  \E intent \in IF completed THEN Intents ELSE {Absent},
                                     object_id \in IF completed THEN ObjectIds
                                                   ELSE {"cs_evt"} :
                                     call' = [Loaded(c, "stripe_webhook", order_id,
                                                    "stripe", event_type, intent, loaded,
                                                    HandleStripeEvent(loaded, event_type,
                                                                      intent, object_id))
                                                EXCEPT ![c].event = event_type,
                                                       ![c].object_id = object_id]
    /\ UNCHANGED <<db, uuids, req, cart, resp>>

(* The commit of a payment call and the refresh after it: the order    *)
(* row takes the columns the call changed, and the call answers with   *)
(* the row as it now is, or raises what it raises after the commit;    *)
(* its session closes.                                                 *)
PayCommit(c) ==
    /\ call[c].pc = "commit"
    /\ LET order_id == call[c].order_id
           row == Flush(orders[order_id], call[c].loaded, call[c].copy)
       IN  /\ orders' = [orders EXCEPT ![order_id] = row]
           /\ call' = [call EXCEPT
                        ![c].pc = "done", ![c].loaded = NoCopy, ![c].copy = NoCopy,
                        ![c].late = "",
                        ![c].answer =
                            IF call[c].late # ""
                            THEN Answer("PaymentProviderError", call[c].late, "", "")
                            ELSE Answer(IF call[c].handler = "init_payment" THEN "session"
                                        ELSE "accepted",
                                        "", row.status, row.payment_reference)]
    /\ UNCHANGED <<products, order_lines, uuids, req, cart, resp>>

(* ProductUpdate: the payloads of the model; a field the payload does  *)
(* not hold is a field left None.                                      *)

ProductUpdate ==
    {[title |-> "Pears", price_cents |-> 700, promo_price_cents |-> 600],
     [stock |-> 5],
     [status |-> "archived", is_published |-> FALSE]}

(* products.py 160-183: every field the payload gives is written. *)
ApplyUpdate(product, payload) ==
    [f \in DOMAIN product |-> IF f \in DOMAIN payload THEN payload[f] ELSE product[f]]

(* endpoints/producers.py 43-57 and products.py 154-190. *)
UpdateProduct(c, p, payload) ==
    /\ NextCall(c)
    /\ IF p \notin DOMAIN products
       THEN /\ call' = [call EXCEPT ![c].pc = "done", ![c].handler = "update_product",
                                    ![c].product_id = p,
                                    ![c].answer = Answer("HTTPException",
                                                         "Product not found", "", "")]
            /\ products' = products
       ELSE /\ products' = [products EXCEPT ![p] = ApplyUpdate(@, payload)]
            /\ call' = [call EXCEPT ![c].pc = "done", ![c].handler = "update_product",
                                    ![c].product_id = p,
                                    ![c].answer = Answer("updated", "", "", "")]
    /\ UNCHANGED <<orders, order_lines, uuids, req, cart, resp>>

DetachLines_Cascade(lines, p) == SelectSeq(lines, LAMBDA line : line.product_id # p)

(* models.py 233: ON DELETE SET NULL on order_lines.product_id. *)
DetachLines(lines, p) ==
    [i \in DOMAIN lines |->
        IF lines[i].product_id = p THEN [lines[i] EXCEPT !.product_id = None] ELSE lines[i]]

(* models.py 253: ON DELETE CASCADE on cart_items.product_id. *)
DropFromCarts(carts, p) == [u \in DOMAIN carts |-> carts[u] \ {p}]

(* endpoints/producers.py 60-71 and products.py 245-251. *)
DeleteProduct(c, p) ==
    /\ NextCall(c)
    /\ IF p \notin DOMAIN products
       THEN /\ call' = [call EXCEPT ![c].pc = "done", ![c].handler = "delete_product",
                                    ![c].product_id = p,
                                    ![c].answer = Answer("HTTPException",
                                                         "Product not found", "", "")]
            /\ UNCHANGED <<products, order_lines, cart>>
       ELSE /\ products' = [q \in DOMAIN products \ {p} |-> products[q]]
            /\ order_lines' = DetachLines(order_lines, p)
            /\ cart' = DropFromCarts(cart, p)
            /\ call' = [call EXCEPT ![c].pc = "done", ![c].handler = "delete_product",
                                    ![c].product_id = p,
                                    ![c].answer = Answer("deleted", "", "", "")]
    /\ UNCHANGED <<orders, uuids, req, resp>>

(* Line 149: a product the session changed was deleted since it was    *)
(* read; the UPDATE of its stock matches no row, the flush raises and  *)
(* the transaction is rolled back.                                     *)
CommitStale(r) ==
    /\ req[r].pc = "commit"
    /\ ~(DOMAIN req[r].pending.stock \subseteq DOMAIN products)
    /\ req' = Done(r, Result("StaleDataError", FALSE, 0, "commit failed", <<>>))
    /\ UNCHANGED <<db, uuids, call, cart, resp>>

(* ------------------------- the orders endpoint ------------------------ *)

(* endpoints/orders.py 26-44 and the framework: the HTTP status of a   *)
(* request create_order did not create an order for.                   *)
StatusOf(kind) ==
    CASE kind = "returned" -> 200
      [] kind = "ProductUnavailableError" -> 404
      [] kind \in {"HTTPException", "OrderValidationError", "OutOfStockError"} -> 400
      [] OTHER -> 500

(* endpoints/orders.py 28-46 and cart.py 100-102: create_order has     *)
(* ended; an error or an order that was there ends the request, a new  *)
(* order sends it to clear_cart, which reads the user's cart items.    *)
Respond(r) ==
    /\ req[r].pc = "done"
    /\ resp[r].pc = "wait"
    /\ resp' = [resp EXCEPT ![r] =
                  IF req[r].result.created
                  THEN [NoResponse EXCEPT !.pc = "clear", !.items = cart[req[r].user]]
                  ELSE [NoResponse EXCEPT !.pc = "done",
                                          !.status = StatusOf(req[r].result.kind)]]
    /\ UNCHANGED <<db, uuids, req, call, cart>>

ClearCart_Never(items, read) == items

(* cart.py 103-105: the rows read are deleted. *)
ClearCart(items, read) == items \ read

(* cart.py 103-105: the commit of clear_cart; the email is next. *)
ClearCommit(r) ==
    /\ resp[r].pc = "clear"
    /\ cart' = [cart EXCEPT ![req[r].user] = ClearCart(@, resp[r].items)]
    /\ resp' = [resp EXCEPT ![r].pc = "email"]
    /\ UNCHANGED <<db, uuids, req, call>>

(* cart.py 105: the commit of clear_cart fails and the request ends    *)
(* with the error; the order was committed before.                     *)
ClearFail(r) ==
    /\ resp[r].pc = "clear"
    /\ resp' = [resp EXCEPT ![r].pc = "done", ![r].status = StatusOf("OperationalError")]
    /\ UNCHANGED <<db, uuids, req, call, cart>>

(* What became of the confirmation email. *)
EmailOutcomes == {"sent", "EmailSendError"}

(* endpoints/orders.py 47-69: the email is sent or EmailSendError is   *)
(* logged, and the request answers 201.                                *)
SendEmail(r) ==
    /\ resp[r].pc = "email"
    /\ \E outcome \in EmailOutcomes :
          resp' = [resp EXCEPT ![r].pc = "done", ![r].status = 201, ![r].email = outcome]
    /\ UNCHANGED <<db, uuids, req, call, cart>>

(* The quantities of a cart update; 0 removes the item. *)
CartQuantities == {0, 1}

(* cart.py 39-96 with one update in the payload: the product must be   *)
(* published and its stock must cover the quantity, else               *)
(* CartStockError; quantity 0 deletes the row, another quantity        *)
(* inserts or updates it.                                              *)
SetCartItems(u, p, quantity) ==
    /\ cart' = IF p \notin DOMAIN products \/ ~Purchasable(products[p])
                  \/ quantity > products[p].stock
               THEN cart
               ELSE IF quantity = 0 THEN [cart EXCEPT ![u] = @ \ {p}]
               ELSE [cart EXCEPT ![u] = @ \cup {p}]
    /\ UNCHANGED <<db, uuids, req, call, resp>>

Next ==
    \/ \E r \in Reqs : req[r].pc = "idle" /\ \E u \in Users, k \in KeyInputs, items \in OrderCreate :
                            Lookup(r, u, k, items)
    \/ \E r \in Reqs : Fetch(r)
    \/ \E r \in Reqs : Commit(r)
    \/ \E r \in Reqs : CommitConflict(r)
    \/ \E r \in Reqs : CommitFail(r)

Spec == Init /\ [][Next]_vars

(* Successive calls: a create_order call enters when no other call is  *)
(* between its lookup and its commit.                                  *)
Alone(r) == \A q \in Reqs : q # r => req[q].pc \in {"idle", "done"}

NextSuccessive ==
    \/ \E r \in Reqs : (req[r].pc = "idle" /\ Alone(r))
                        /\ \E u \in Users, k \in KeyInputs, items \in OrderCreate :
                              Lookup(r, u, k, items)
    \/ \E r \in Reqs : Fetch(r)
    \/ \E r \in Reqs : Commit(r)
    \/ \E r \in Reqs : CommitConflict(r)
    \/ \E r \in Reqs : CommitFail(r)

SpecSuccessive == Init /\ [][NextSuccessive]_vars

(* The life of an order after its creation: create_order on a few      *)
(* payloads, with the payment endpoints and the producer's edits.      *)
LifecycleItems ==
    {<<[product_id |-> 1, quantity |-> 2], [product_id |-> 2, quantity |-> 1]>>,
     <<[product_id |-> 1, quantity |-> 1], [product_id |-> 1, quantity |-> 2]>>}

NextLifecycle ==
    \/ \E r \in Reqs : req[r].pc = "idle" /\ \E u \in Users, k \in Keys, items \in LifecycleItems :
                            Lookup(r, u, k, items)
    \/ \E r \in Reqs : Fetch(r)
    \/ \E r \in Reqs : Commit(r)
    \/ \E r \in Reqs : CommitConflict(r)
    \/ \E r \in Reqs : CommitFail(r)
    \/ \E c \in Calls : InitPayment(c)
    \/ \E c \in Calls : PaymentWebhook(c)
    \/ \E c \in Calls : StripeWebhook(c)
    \/ \E c \in Calls : PayCommit(c)
    \/ \E r \in Reqs : CommitStale(r)
    \/ \E c \in Calls, p \in ProductIds, payload \in ProductUpdate :
          UpdateProduct(c, p, payload)
    \/ \E c \in Calls, p \in ProductIds : DeleteProduct(c, p)

SpecLifecycle == Init /\ [][NextLifecycle]_vars

(* The orders endpoint: create_order on payloads that are served,      *)
(* refused for an unpublished product or refused for the stock, then   *)
(* the response, with the users editing their carts meanwhile.         *)
EndpointItems ==
    {<<[product_id |-> 1, quantity |-> 2]>>, <<[product_id |-> 3, quantity |-> 1]>>}

NextEndpoint ==
    \/ \E r \in Reqs : req[r].pc = "idle"
                        /\ \E u \in Users, k \in Keys \cup {" "}, items \in EndpointItems :
                              Lookup(r, u, k, items)
    \/ \E r \in Reqs : Fetch(r)
    \/ \E r \in Reqs : Commit(r)
    \/ \E r \in Reqs : CommitConflict(r)
    \/ \E r \in Reqs : CommitFail(r)
    \/ \E r \in Reqs : Respond(r)
    \/ \E r \in Reqs : ClearCommit(r)
    \/ \E r \in Reqs : ClearFail(r)
    \/ \E r \in Reqs : SendEmail(r)
    \/ \E u \in Users, p \in ProductIds, quantity \in CartQuantities :
          SetCartItems(u, p, quantity)

SpecEndpoint == Init /\ [][NextEndpoint]_vars

(* The reconciliation of an order that has a history: user 1 has       *)
(* created order 1 with the first payload of LifecycleItems, and the   *)
(* order is still pending or one webhook of its provider, carrying no  *)
(* payment_intent, has been handled and has left it paid, cancelled or *)
(* refunded.  From there the payment endpoints are called, and their   *)
(* calls interleave at their commits.                                  *)
FirstItems == <<[product_id |-> 1, quantity |-> 2], [product_id |-> 2, quantity |-> 1]>>
FirstOrder == AssembleOrder(1, KeyNames[1], FirstItems, Catalogue)
ReconciledStatus == {"pending", "paid", "cancelled", "refunded"}

InitReconcile ==
    /\ products = UpdateStock(Catalogue, FirstOrder.stock)
    /\ \E status \in ReconciledStatus :
          orders = InsertOrder(<<>>, UpdateOrderStatus(FirstOrder.order, status, ""))
    /\ order_lines = InsertLines(<<>>, FirstOrder.lines, 1)
    /\ uuids = 0
    /\ req = [r \in Reqs |->
                IF r = 1
                THEN [pc |-> "done", user |-> 1, key_in |-> KeyNames[1], key |-> KeyNames[1],
                      items |-> FirstItems, pending |-> NoPending,
                      result |-> Result("created", TRUE, 1, "", <<>>)]
                ELSE Idle]
    /\ call = [c \in Calls |-> NoCall]
    /\ cart = [u \in Users |-> IF u = 1 THEN {} ELSE InitialCart[u]]
    /\ resp = [r \in Reqs |->
                 IF r = 1 THEN [pc |-> "done", items |-> InitialCart[1], status |-> 201,
                                email |-> "sent"]
                 ELSE NoResponse]

NextReconcile ==
    \/ \E c \in Calls : InitPayment(c)
    \/ \E c \in Calls : PaymentWebhook(c)
    \/ \E c \in Calls : StripeWebhook(c)
    \/ \E c \in Calls : PayCommit(c)

SpecReconcile == InitReconcile /\ [][NextReconcile]_vars

(* ------------------------------ claims -------------------------------- *)

(* The step in which request r runs its existing-order SELECT, its      *)
(* products SELECT, its COMMIT.                                         *)
LookupStep(r) == req[r].pc = "idle" /\ req'[r].pc # "idle"
FetchStep(r) == req[r].pc = "fetch" /\ req'[r].pc # "fetch"
CommitStep(r) == req[r].pc = "commit" /\ req'[r].pc = "done"

NamesMissing(items) == \E i \in DOMAIN items : items[i].product_id \notin DOMAIN products

NamesUnpublished(items) ==
    \E i \in DOMAIN items : /\ items[i].product_id \in DOMAIN products
                            /\ ~Purchasable(products[items[i].product_id])

AsksTooMuch(items) ==
    \E i \in DOMAIN items : /\ items[i].product_id \in DOMAIN products
                            /\ items[i].quantity > products[items[i].product_id].stock

(* C1: once an order o exists for (user, key), with key a client key    *)
(* that is neither blank nor the placeholder, every call that enters    *)
(* with that user and key, whatever its payload, returns o with         *)
(* created = false, and the step adds no order, no line and changes no  *)
(* product.                                                             *)
C1_IdempotentReplay ==
    [][\A r \in Reqs : \A o \in DOMAIN orders :
          (/\ LookupStep(r)
           /\ req'[r].key_in \in Keys
           /\ orders[o].user_id = req'[r].user
           /\ orders[o].idempotency_key = req'[r].key_in)
          => /\ req'[r].pc = "done"
             /\ req'[r].result.kind = "returned"
             /\ req'[r].result.created = FALSE
             /\ req'[r].result.order_id = o
             /\ orders' = orders
             /\ order_lines' = order_lines
             /\ products' = products]_vars

(* A replayed call whose payload names a missing product, an            *)
(* unpublished one and more than the stock left has returned the order. *)
C1_Witness ==
    \E r \in Reqs :
        /\ req[r].pc = "done"
        /\ req[r].result.kind = "returned"
        /\ req[r].result.order_id \in DOMAIN orders
        /\ orders[req[r].result.order_id].idempotency_key = req[r].key_in
        /\ orders[req[r].result.order_id].user_id = req[r].user
        /\ NamesMissing(req[r].items)
        /\ \/ NamesUnpublished(req[r].items)
           \/ AsksTooMuch(req[r].items)

(* C2: no two orders have the same (user_id, idempotency_key). *)
C2_OneOrderPerUserKey ==
    \A o1, o2 \in DOMAIN orders :
        (/\ orders[o1].user_id = orders[o2].user_id
         /\ orders[o1].idempotency_key = orders[o2].idempotency_key) => o1 = o2

(* Two calls with the same user and key both passed the lookup; one     *)
(* committed and the other's INSERT was refused.                        *)
C2_Witness ==
    \E r1, r2 \in Reqs :
        /\ req[r1].result.kind = "created"
        /\ req[r2].result.kind = "IntegrityError"
        /\ req[r1].user = req[r2].user
        /\ req[r1].key = req[r2].key
        /\ Len(orders) = 1

(* C3: the stock of every product is at least 0. *)
C3_StockNonNegative == \A p \in DOMAIN products : products[p].stock >= 0

RECURSIVE Sum(_)
Sum(ints) == IF ints = <<>> THEN 0 ELSE Head(ints) + Sum(Tail(ints))

(* The quantity a payload orders of product p, over all its lines. *)
Ordered(items, p) ==
    Sum([i \in DOMAIN items |->
            IF items[i].product_id = p THEN items[i].quantity ELSE 0])

(* The quantity of product p over all committed order lines. *)
Sold(p) ==
    Sum([i \in DOMAIN order_lines |->
            IF order_lines[i].product_id = p THEN order_lines[i].quantity ELSE 0])

LinesOf(o) == SelectSeq(order_lines, LAMBDA line : line.order_id = o)

(* C4: a commit that creates an order for a request the committed stock *)
(* covers lowers the stock of each product by the quantity the request  *)
(* orders of it, and leaves every other product's stock as it was.      *)
C4_ExactDecrement ==
    [][\A r \in Reqs :
          (/\ CommitStep(r)
           /\ req'[r].result.created
           /\ \A p \in DOMAIN products : Ordered(req[r].items, p) <= products[p].stock)
          => \A p \in DOMAIN products :
                products'[p].stock = products[p].stock - Ordered(req[r].items, p)]_vars

(* C5: every order's totals are the sums over its lines. *)
C5_TotalsAreSums ==
    \A o \in DOMAIN orders :
        LET lines == LinesOf(o)
        IN  /\ orders[o].total_amount_cents =
                  Sum([i \in DOMAIN lines |-> lines[i].subtotal_cents])
            /\ orders[o].total_items = Sum([i \in DOMAIN lines |-> lines[i].quantity])

(* An order of two lines, one of them at a promo price (2 x 400 + 1000), *)
(* has been paid through a webhook, and the product of one of its lines *)
(* has since been edited to other prices.                               *)
C5_Witness ==
    \E o \in DOMAIN orders :
        /\ Len(LinesOf(o)) = 2
        /\ orders[o].total_amount_cents = 1800
        /\ orders[o].total_items = 3
        /\ orders[o].status = "paid"
        /\ \E c \in Calls : call[c].handler = "update_product" /\ call[c].pc = "done"
        /\ \E i \in 1..2 :
              LET line == LinesOf(o)[i]
              IN  /\ line.unit_price_cents # line.reference_price_cents
                  /\ line.product_id \in DOMAIN products
                  /\ products[line.product_id].promo_price_cents # line.unit_price_cents
                  /\ products[line.product_id].price_cents # line.reference_price_cents

(* The step in which the call of request r ends. *)
EndStep(r) == req[r].pc # "done" /\ req'[r].pc = "done"

(* C6 as stated: a call whose payload asks, of some product, more than  *)
(* its stock raises OutOfStockError and changes no table.               *)
C6_AsStated ==
    [][\A r \in Reqs :
          (EndStep(r) /\ AsksTooMuch(req'[r].items))
          => /\ req'[r].result.kind = "OutOfStockError"
             /\ UNCHANGED db]_vars

(* The first line of the payload that asks for more than the stock. *)
FirstShort(items) ==
    CHOOSE i \in DOMAIN items :
        /\ items[i].quantity > products[items[i].product_id].stock
        /\ \A j \in 1..(i - 1) : items[j].quantity <= products[items[j].product_id].stock

(* C6 amended: when a call reads the products and some line asks for    *)
(* more than the stock read, the call raises and no table changes; it   *)
(* raises OutOfStockError for the first such line when no id is missing *)
(* and no line up to that one names a product that cannot be bought,    *)
(* and ProductUnavailableError otherwise.                               *)
C6_OutOfStockAtomic ==
    [][\A r \in Reqs :
          (FetchStep(r) /\ AsksTooMuch(req[r].items))
          => /\ req'[r].pc = "done"
             /\ UNCHANGED db
             /\ IF /\ ~NamesMissing(req[r].items)
                   /\ \A j \in 1..FirstShort(req[r].items) :
                         Purchasable(products[req[r].items[j].product_id])
                THEN /\ req'[r].result.kind = "OutOfStockError"
                     /\ req'[r].result.ids =
                           <<req[r].items[FirstShort(req[r].items)].product_id>>
                ELSE req'[r].result.kind = "ProductUnavailableError"]_vars

(* A two-line request was refused for its second line, after a first    *)
(* line on another product that the stock covers.                       *)
C6_Witness ==
    \E r \in Reqs :
        /\ req[r].pc = "done"
        /\ req[r].result.kind = "OutOfStockError"
        /\ Len(req[r].items) = 2
        /\ req[r].items[1].product_id # req[r].items[2].product_id
        /\ req[r].items[1].quantity <= products[req[r].items[1].product_id].stock
        /\ req[r].result.ids = <<req[r].items[2].product_id>>

C8_AtomicCommit ==
    [][\A r \in Reqs :
          req'[r] # req[r]
          => \/ UNCHANGED db
             \/ LET pending == req[r].pending
                    oid == Len(orders) + 1
                IN  /\ CommitStep(r)
                    /\ req'[r].result.created
                    /\ req'[r].result.order_id = oid
                    /\ orders' = Append(orders, pending.order)
                    /\ Len(order_lines') = Len(order_lines) + Len(pending.lines)
                    /\ \A i \in DOMAIN order_lines : order_lines'[i] = order_lines[i]
                    /\ \A i \in DOMAIN pending.lines :
                          order_lines'[Len(order_lines) + i] =
                             [pending.lines[i] EXCEPT !.order_id = oid]
                    /\ \A p \in DOMAIN products :
                          products'[p] =
                             IF p \in DOMAIN pending.stock
                             THEN [products[p] EXCEPT !.stock = pending.stock[p]]
                             ELSE products[p]]_vars

(* One call's commit failed and left nothing, another's created an      *)
(* order of two lines on two products.                                  *)
C8_Witness ==
    \E r1, r2 \in Reqs :
        /\ req[r1].result.kind = "OperationalError"
        /\ req[r2].result.kind = "created"
        /\ Len(orders) = 1
        /\ Len(order_lines) = 2
        /\ order_lines[1].product_id # order_lines[2].product_id
        /\ \A p \in DOMAIN products : Sold(p) > 0 => products[p].stock < InitStock

(* C9: a commit refused by the unique index, an order of the same user  *)
(* and key being committed, ends the call with that order and           *)
(* created = false.                                                     *)
C9_ConflictReturnsOrder ==
    [][\A r \in Reqs : \A o \in DOMAIN orders :
          (/\ CommitStep(r)
           /\ orders[o].user_id = req[r].user
           /\ orders[o].idempotency_key = req[r].key
           /\ req'[r].result.kind # "OperationalError")
          => /\ req'[r].result.kind = "returned"
             /\ req'[r].result.created = FALSE
             /\ req'[r].result.order_id = o]_vars

NoRepeat(items) == Cardinality(ItemIds(items)) = Len(items)

(* C10: two calls with different keys have both committed orders that   *)
(* name product p: its stock is the initial stock less both quantities, *)
(* and what was sold of it is no more than the initial stock.           *)
C10_StockConservation ==
    \A r1, r2 \in Reqs : \A p \in DOMAIN products :
        (/\ r1 # r2
         /\ req[r1].result.created /\ req[r2].result.created
         /\ req[r1].key # req[r2].key
         /\ NoRepeat(req[r1].items) /\ NoRepeat(req[r2].items)
         /\ Ordered(req[r1].items, p) > 0 /\ Ordered(req[r2].items, p) > 0)
        => /\ products[p].stock =
                 InitialStock(p) - Ordered(req[r1].items, p) - Ordered(req[r2].items, p)
           /\ Sold(p) <= InitialStock(p)

(* The step in which call c commits, and the step in which it is       *)
(* answered, at its load or at its commit.                             *)
PayCommitStep(c) == call[c].pc = "commit" /\ call'[c].pc = "done"
AnswerStep(c) == call[c].pc # "done" /\ call'[c].pc = "done"

(* Call d was accepted and is the delivery call c repeats. *)
SameDelivery(c, d) ==
    /\ d # c
    /\ call[d].pc = "done"
    /\ call[d].answer.kind = "accepted"
    /\ call[d].handler = call[c].handler
    /\ call[d].order_id = call[c].order_id
    /\ call[d].provider = call[c].provider
    /\ call[d].event = call[c].event
    /\ call[d].intent = call[c].intent

(* C11: the commit of a payment_succeeded webhook that loaded its order *)
(* pending, from the order's provider and with a payment_intent, leaves *)
(* the order paid with that intent as payment_reference; the commit of  *)
(* the same delivery made again finds the order paid and changes no     *)
(* order.                                                               *)
C11_SucceededWebhook ==
    [][\A c \in Calls :
          (/\ PayCommitStep(c)
           /\ call[c].handler = "webhook"
           /\ call[c].event = "payment_succeeded")
          => LET o == call[c].order_id
             IN  /\ (call[c].loaded.status = "pending" /\ call[c].intent # Absent)
                       => /\ orders'[o].status = "paid"
                          /\ orders'[o].payment_reference = call[c].intent
                          /\ call'[c].answer.kind = "accepted"
                          /\ call'[c].answer.status = "paid"
                 /\ (\E d \in Calls : SameDelivery(c, d))
                       => /\ orders[o].status = "paid"
                          /\ orders' = orders
                          /\ call'[c].answer.status = "paid"]_vars

(* The same payment_succeeded webhook was delivered twice for an order  *)
(* created pending; the order is paid and holds the payment intent.     *)
C11_Witness ==
    \E c, d \in Calls :
        /\ call[c].pc = "done"
        /\ call[c].answer.kind = "accepted"
        /\ call[c].handler = "webhook"
        /\ call[c].event = "payment_succeeded"
        /\ call[c].intent = "pi_1"
        /\ SameDelivery(c, d)
        /\ orders[call[c].order_id].status = "paid"
        /\ orders[call[c].order_id].payment_reference = "pi_1"

(* The step in which call c, a webhook that passed its endpoint's      *)
(* checks, has looked for its order.                                   *)
WebhookLoadStep(c) ==
    /\ call[c].pc = "idle"
    /\ call'[c].pc # "idle"
    /\ call'[c].handler \in {"webhook", "stripe_webhook"}
    /\ call'[c].answer.kind # "HTTPException"

(* C12: a Stripe object with no order reference, or with none that     *)
(* int() accepts, resolves to no order id; a webhook of either form    *)
(* whose order id is none or names no order raises                     *)
(* PaymentProviderError at once, and no order, line or product         *)
(* changes.                                                            *)
C12_UnknownOrderRejected ==
    [][\A c \in Calls :
          WebhookLoadStep(c)
          => /\ \A m \in MetadataIds, cr \in ClientReferenceIds :
                   (ParseInt(m) = 0 /\ ParseInt(cr) = 0) => StripeOrderId(m, cr) = 0
             /\ call'[c].order_id \notin DOMAIN orders
                   => /\ call'[c].pc = "done"
                      /\ call'[c].answer.kind = "PaymentProviderError"
                      /\ call'[c].answer.msg =
                            IF call'[c].order_id = 0
                            THEN "Stripe webhook missing order reference"
                            ELSE "Order not found"
                      /\ UNCHANGED db]_vars

(* With an order in the table, a Stripe event without order reference  *)
(* and a signed webhook naming an order id that does not exist were    *)
(* both rejected.                                                      *)
C12_Witness ==
    /\ Len(orders) >= 1
    /\ \E c, d \in Calls :
          /\ call[c].handler = "stripe_webhook"
          /\ call[c].answer.msg = "Stripe webhook missing order reference"
          /\ call[d].handler = "webhook"
          /\ call[d].answer.msg = "Order not found"
          /\ call[d].order_id \notin DOMAIN orders

(* The status changes of the reconciler's transition table. *)
TableTransitions ==
    {<<"pending", "paid">>, <<"pending", "cancelled">>, <<"paid", "cancelled">>,
     <<"paid", "refunded">>}

(* C13: every change of an order's status made by the commit of a      *)
(* webhook, signed or Stripe, is a transition of the table.            *)
C13_TransitionTable ==
    [][\A c \in Calls :
          (PayCommitStep(c) /\ call[c].handler \in {"webhook", "stripe_webhook"})
          => \A o \in DOMAIN orders :
                orders'[o].status # orders[o].status
                => <<orders[o].status, orders'[o].status>> \in TableTransitions]_vars

(* The step in which call c, an init_payment call, has loaded its      *)
(* order o for the order's user.                                       *)
InitLoadStep(c, o) ==
    /\ call[c].pc = "idle"
    /\ call'[c].pc # "idle"
    /\ call'[c].handler = "init_payment"
    /\ call'[c].order_id = o
    /\ call'[c].answer.msg # "Order not found"

(* C14: init_payment_session raises "Order already processed" for an   *)
(* order of any status but pending and draft, whatever the provider,   *)
(* and for no pending or draft order; a call that loads its order in   *)
(* such a status is answered with that error and no order, line or     *)
(* product changes.                                                    *)
C14_InitPreconditions ==
    [][\A c \in Calls : \A o \in DOMAIN orders :
          InitLoadStep(c, o)
          => /\ \A st \in OrderStatus, provider \in Providers, outcome \in StripeOutcomes :
                   LET copy == [status |-> st, payment_provider |-> "manual",
                                payment_reference |-> ""]
                       step == InitPaymentSession(copy, o, provider, outcome, "cs_1")
                   IN  (step.error = "Order already processed")
                          <=> st \notin {"pending", "draft"}
             /\ orders[o].status \notin {"pending", "draft"}
                   => /\ call'[c].pc = "done"
                      /\ call'[c].answer.kind = "PaymentProviderError"
                      /\ call'[c].answer.msg = "Order already processed"
                      /\ UNCHANGED db]_vars

(* An order was cancelled by a webhook, and an init_payment call for   *)
(* it was then refused; the order is as the webhook left it.           *)
C14_Witness ==
    \E c, d \in Calls :
        /\ call[c].handler = "init_payment"
        /\ call[c].answer.msg = "Order already processed"
        /\ call[d].handler \in {"webhook", "stripe_webhook"}
        /\ call[d].order_id = call[c].order_id
        /\ call[d].answer.status = "cancelled"
        /\ orders[call[c].order_id].status = "cancelled"
        /\ orders[call[c].order_id].payment_provider = "manual"

(* C15: a call whose key is empty or blank raises OrderValidationError  *)
(* and a request without the header is answered 400 by the endpoint;   *)
(* either ends at once with created = false, no key generated, and no  *)
(* order, line or product changed.                                     *)
C15_BlankKeyRejected ==
    [][\A r \in Reqs :
          (LookupStep(r) /\ req'[r].key_in \in BlankKeys \cup {Absent})
          => /\ req'[r].pc = "done"
             /\ req'[r].result.kind =
                   IF req'[r].key_in = Absent THEN "HTTPException"
                   ELSE "OrderValidationError"
             /\ req'[r].result.created = FALSE
             /\ uuids' = uuids
             /\ UNCHANGED db]_vars

(* A call with a key of one space and a request without the header     *)
(* were both refused; nothing was ordered.                             *)
C15_Witness ==
    \E r1, r2 \in Reqs :
        /\ req[r1].key_in = " "
        /\ req[r1].result.kind = "OrderValidationError"
        /\ req[r2].key_in = Absent
        /\ req[r2].result.kind = "HTTPException"
        /\ orders = <<>>
        /\ \A p \in DOMAIN products : products[p].stock = InitialStock(p)

(* C16: in successive calls, a call sent with the placeholder works    *)
(* under a generated key that is neither the placeholder nor a client  *)
(* key, is never answered with an existing order, and no stored key is *)
(* the placeholder; two such calls of one user that both went through  *)
(* have created two orders, and every stock is the initial stock less  *)
(* what the two ordered.                                               *)
C16_PlaceholderDisablesIdempotency ==
    /\ \A o \in DOMAIN orders : orders[o].idempotency_key # Placeholder
    /\ \A r \in Reqs :
          (req[r].pc # "idle" /\ req[r].key_in = Placeholder)
          => /\ req[r].key \notin Keys \cup {Placeholder}
             /\ req[r].result.kind \notin {"returned", "IntegrityError"}
    /\ \A r1, r2 \in Reqs :
          (/\ r1 # r2
           /\ req[r1].key_in = Placeholder /\ req[r2].key_in = Placeholder
           /\ req[r1].user = req[r2].user
           /\ req[r1].result.kind \in {"created", "returned"}
           /\ req[r2].result.kind \in {"created", "returned"})
          => /\ req[r1].result.created /\ req[r2].result.created
             /\ req[r1].result.order_id # req[r2].result.order_id
             /\ Len(orders) = 2
             /\ orders[1].idempotency_key # orders[2].idempotency_key
             /\ \A p \in DOMAIN products :
                   products[p].stock = InitialStock(p) - Ordered(req[r1].items, p)
                                                       - Ordered(req[r2].items, p)

(* One user sent the placeholder twice with the same payload; there    *)
(* are two orders and the stock of the product fell twice.             *)
C16_Witness ==
    \E r1, r2 \in Reqs :
        /\ r1 # r2
        /\ req[r1].key_in = Placeholder /\ req[r2].key_in = Placeholder
        /\ req[r1].user = req[r2].user
        /\ req[r1].items = req[r2].items
        /\ req[r1].result.created /\ req[r2].result.created
        /\ Len(orders) = 2
        /\ products[1].stock = InitialStock(1) - 2

(* The step in which request r has read the products and assembled its *)
(* order, and the product row that line i of its payload names.        *)
AssembleStep(r) == FetchStep(r) /\ req'[r].pc = "commit"
ProductOf(r, i) == products[req[r].items[i].product_id]

(* C17: the order a call assembles has one line per item, in order,    *)
(* priced from the product as read: the promo price when it is set,    *)
(* the regular price otherwise, times the quantity; its totals are the *)
(* sums over these lines; and the commit that creates the order stores *)
(* these lines and totals.                                             *)
C17_PricingSnapshot ==
    [][\A r \in Reqs :
          /\ AssembleStep(r)
                => LET pending == req'[r].pending
                   IN  /\ Len(pending.lines) = Len(req[r].items)
                       /\ \A i \in DOMAIN pending.lines :
                             LET line == pending.lines[i]
                                 product == ProductOf(r, i)
                             IN  /\ line.product_id = req[r].items[i].product_id
                                 /\ line.quantity = req[r].items[i].quantity
                                 /\ product.promo_price_cents # None
                                       => line.unit_price_cents = product.promo_price_cents
                                 /\ product.promo_price_cents = None
                                       => line.unit_price_cents = product.price_cents
                                 /\ line.subtotal_cents =
                                       line.unit_price_cents * line.quantity
                       /\ pending.order.total_amount_cents =
                             Sum([i \in DOMAIN pending.lines |->
                                    pending.lines[i].subtotal_cents])
                       /\ pending.order.total_items =
                             Sum([i \in DOMAIN pending.lines |-> pending.lines[i].quantity])
          /\ (CommitStep(r) /\ req'[r].result.created)
                => LET o == req'[r].result.order_id
                       stored == SelectSeq(order_lines', LAMBDA line : line.order_id = o)
                   IN  /\ orders'[o] = req[r].pending.order
                       /\ stored = [i \in DOMAIN req[r].pending.lines |->
                                      [req[r].pending.lines[i] EXCEPT !.order_id = o]]]_vars

(* The order of the example: 2 of a product at 500 with promo 400 and  *)
(* 1 of a product at 1000 give subtotals 800 and 1000, 1800 in all for *)
(* 3 items.                                                            *)
C17_Witness ==
    \E o \in DOMAIN orders :
        /\ Len(LinesOf(o)) = 2
        /\ LinesOf(o)[1].unit_price_cents = 400 /\ LinesOf(o)[1].quantity = 2
        /\ LinesOf(o)[1].subtotal_cents = 800
        /\ LinesOf(o)[2].unit_price_cents = 1000 /\ LinesOf(o)[2].quantity = 1
        /\ LinesOf(o)[2].subtotal_cents = 1000
        /\ orders[o].total_amount_cents = 1800
        /\ orders[o].total_items = 3

(* C18 as stated: a line assembled for a product with a promo price    *)
(* holds the regular price as reference price, and a line assembled    *)
(* for a product without one holds no reference price.                 *)
C18_AsStated ==
    [][\A r \in Reqs :
          AssembleStep(r)
          => \A i \in DOMAIN req'[r].pending.lines :
                req'[r].pending.lines[i].reference_price_cents =
                   IF ProductOf(r, i).promo_price_cents # None
                   THEN ProductOf(r, i).price_cents ELSE None]_vars

(* C18 amended: every line assembled holds the product's regular price *)
(* as reference price; with a promo price set the unit price is the    *)
(* promo price, and without one the reference price is the unit price. *)
C18_ReferencePrice ==
    [][\A r \in Reqs :
          AssembleStep(r)
          => \A i \in DOMAIN req'[r].pending.lines :
                LET line == req'[r].pending.lines[i]
                IN  /\ line.reference_price_cents = ProductOf(r, i).price_cents
                    /\ line.reference_price_cents # None
                    /\ ProductOf(r, i).promo_price_cents # None
                          => line.unit_price_cents = ProductOf(r, i).promo_price_cents
                    /\ ProductOf(r, i).promo_price_cents = None
                          => line.reference_price_cents = line.unit_price_cents]_vars

(* An order holds a line at a promo price with the regular price as    *)
(* reference, and a line of a product without promo whose reference    *)
(* price is the price charged.                                         *)
C18_Witness ==
    \E o \in DOMAIN orders :
        \E i, j \in DOMAIN LinesOf(o) :
            /\ LinesOf(o)[i].unit_price_cents = 400
            /\ LinesOf(o)[i].reference_price_cents = 500
            /\ LinesOf(o)[j].product_id \in DOMAIN products
            /\ products[LinesOf(o)[j].product_id].promo_price_cents = None
            /\ LinesOf(o)[j].reference_price_cents = LinesOf(o)[j].unit_price_cents
            /\ LinesOf(o)[j].reference_price_cents = 1000

(* What a line holds of the sale. *)
Snapshot(line) ==
    [order_id |-> line.order_id, product_title |-> line.product_title,
     quantity |-> line.quantity, unit_price_cents |-> line.unit_price_cents,
     reference_price_cents |-> line.reference_price_cents,
     subtotal_cents |-> line.subtotal_cents]

(* C19: no step of any operation (create_order of another order,       *)
(* init_payment_session, a webhook, update_product, delete_product)    *)
(* removes a line, changes what a line holds of the sale, or changes   *)
(* the totals of an order.                                             *)
C19_LinesImmutable ==
    [][/\ Len(order_lines') >= Len(order_lines)
       /\ \A i \in DOMAIN order_lines :
             Snapshot(order_lines'[i]) = Snapshot(order_lines[i])
       /\ Len(orders') >= Len(orders)
       /\ \A o \in DOMAIN orders :
             /\ orders'[o].total_amount_cents = orders[o].total_amount_cents
             /\ orders'[o].total_items = orders[o].total_items]_vars

(* An order of two lines: the product of the first was deleted and the *)
(* product of the second was renamed and re-priced; both lines hold    *)
(* the titles and prices of the sale and the total is what it was.     *)
C19_Witness ==
    \E o \in DOMAIN orders :
        /\ Len(LinesOf(o)) = 2
        /\ LinesOf(o)[1].product_id = None
        /\ LinesOf(o)[1].product_title = "Apples"
        /\ LinesOf(o)[1].unit_price_cents = 400
        /\ LinesOf(o)[2].product_id \in DOMAIN products
        /\ LinesOf(o)[2].product_title = "Honey"
        /\ products[LinesOf(o)[2].product_id].title = "Pears"
        /\ LinesOf(o)[2].unit_price_cents = 1000
        /\ products[LinesOf(o)[2].product_id].promo_price_cents = 600
        /\ orders[o].total_amount_cents = 1800

(* C20: handle_webhook raises "Provider mismatch" for every event and  *)
(* payment intent when the payload's provider is not the order's; a    *)
(* signed webhook that loads an order recorded with another provider   *)
(* is answered with that error and no order, line or product changes.  *)
C20_ProviderMismatch ==
    [][\A c \in Calls : \A o \in DOMAIN orders :
          (/\ WebhookLoadStep(c)
           /\ call'[c].handler = "webhook"
           /\ call'[c].order_id = o
           /\ call'[c].provider # orders[o].payment_provider)
          => /\ \A event \in WebhookEvents, intent \in Intents :
                   HandleWebhook(CopyOf(orders[o]), call'[c].provider, event, intent).error
                      = "Provider mismatch"
             /\ call'[c].pc = "done"
             /\ call'[c].answer.kind = "PaymentProviderError"
             /\ call'[c].answer.msg = "Provider mismatch"
             /\ UNCHANGED db]_vars

(* An order was given the provider paygreen by init_payment, and a     *)
(* webhook signed for it in the name of manual, the provider it was    *)
(* created with, was then refused; the order is still pending.         *)
C20_Witness ==
    \E c, d \in Calls :
        /\ call[d].handler = "init_payment"
        /\ call[d].provider = "paygreen"
        /\ call[d].answer.kind = "session"
        /\ call[c].handler = "webhook"
        /\ call[c].order_id = call[d].order_id
        /\ call[c].provider = "manual"
        /\ call[c].answer.msg = "Provider mismatch"
        /\ orders[call[c].order_id].status = "pending"
        /\ orders[call[c].order_id].payment_provider = "paygreen"

(* The step in which call c, a request to the signed webhook endpoint, *)
(* is received.                                                        *)
WebhookEnterStep(c) ==
    call[c].pc = "idle" /\ call'[c].pc # "idle" /\ call'[c].handler = "webhook"

(* C21: a request to the signed webhook whose X-Payment-Signature is   *)
(* absent or is not the signature of its body is answered 400          *)
(* "Invalid signature" at once, with no order, line or product         *)
(* changed; a request that reached handle_webhook carried the          *)
(* signature of its body.                                              *)
C21_SignatureGate ==
    [][\A c \in Calls :
          WebhookEnterStep(c)
          => /\ (call'[c].signature = Absent \/ call'[c].signature # PayloadSignature)
                   => /\ call'[c].pc = "done"
                      /\ call'[c].answer.kind = "HTTPException"
                      /\ call'[c].answer.msg = "Invalid signature"
                      /\ call'[c].copy = NoCopy
                      /\ UNCHANGED db
             /\ call'[c].answer.msg # "Invalid signature"
                   => call'[c].signature = PayloadSignature]_vars

(* With a pending order in the table, a webhook without the header and *)
(* one with another signature were both turned away; the order is      *)
(* still pending.                                                      *)
C21_Witness ==
    /\ Len(orders) >= 1
    /\ orders[1].status = "pending"
    /\ \E c, d \in Calls :
          /\ call[c].handler = "webhook" /\ call[c].signature = Absent
          /\ call[c].answer.msg = "Invalid signature"
          /\ call[d].handler = "webhook" /\ call[d].signature = "sig-67890"
          /\ call[d].answer.msg = "Invalid signature"

(* The status the reconciler maps an event to. *)
MappedStatus ==
    [e \in WebhookEvents \cup (StripeEvents \ {"invoice.paid"}) |->
        IF e \in {"payment_succeeded", "checkout.session.completed"} THEN "paid"
        ELSE IF e \in {"payment_failed", "checkout.session.expired",
                       "payment_intent.payment_failed"} THEN "cancelled"
        ELSE "refunded"]

LineUnavailable(items, i) == ~Purchasable(products[items[i].product_id])
LineShort(items, i) == items[i].quantity > products[items[i].product_id].stock
LineFails(items, i) == LineUnavailable(items, i) \/ LineShort(items, i)

(* C23: when a call has read the products, a missing id anywhere in    *)
(* the payload decides before any line is looked at; else the first    *)
(* line, in request order, that names a product that cannot be bought  *)
(* or asks for more than its stock decides, and names its product; it  *)
(* raises ProductUnavailableError when the product cannot be bought,   *)
(* short of stock or not, and OutOfStockError otherwise.               *)
C23_ValidationOrder ==
    [][\A r \in Reqs :
          FetchStep(r)
          => LET items == req[r].items
                 result == req'[r].result
             IN  IF NamesMissing(items)
                 THEN /\ result.kind = "ProductUnavailableError"
                      /\ result.msg = "not found"
                 ELSE \A i \in DOMAIN items :
                         (LineFails(items, i) /\ \A j \in 1..(i - 1) : ~LineFails(items, j))
                         => /\ req'[r].pc = "done"
                            /\ result.ids = <<items[i].product_id>>
                            /\ result.kind = IF LineUnavailable(items, i)
                                             THEN "ProductUnavailableError"
                                             ELSE "OutOfStockError"
                            /\ result.msg = IF LineUnavailable(items, i)
                                            THEN "not available"
                                            ELSE "insufficient stock"]_vars

(* A request whose first line asks, of an unpublished product, more    *)
(* than its stock was refused as unavailable; another, whose first     *)
(* line does the same and whose second names a missing id, was refused *)
(* for the missing id.                                                 *)
C23_Witness ==
    \E r1, r2 \in Reqs :
        /\ req[r1].pc = "done" /\ req[r2].pc = "done"
        /\ Len(req[r1].items) >= 1
        /\ ~NamesMissing(req[r1].items)
        /\ LineUnavailable(req[r1].items, 1) /\ LineShort(req[r1].items, 1)
        /\ req[r1].result.kind = "ProductUnavailableError"
        /\ req[r1].result.msg = "not available"
        /\ Len(req[r2].items) = 2
        /\ req[r2].items[2].product_id \notin DOMAIN products
        /\ LineUnavailable(req[r2].items, 1) /\ LineShort(req[r2].items, 1)
        /\ req[r2].result.msg = "not found"

(* The step in which call c, an init_payment call with a sandbox       *)
(* provider, commits.                                                  *)
SandboxCommitStep(c) ==
    /\ PayCommitStep(c)
    /\ call[c].handler = "init_payment"
    /\ call[c].provider \in {"paygreen", "manual"}

(* C24: the commit of init_payment_session with a sandbox provider     *)
(* leaves the order with that provider and with the reference          *)
(* "<provider>_session_<order id>", which it answers, and with the     *)
(* status and totals it had; no other order, no line and no product    *)
(* changes; and a step that changes the status of an order is the      *)
(* commit of an accepted webhook.                                      *)
C24_InitLeavesStatus ==
    [][/\ \A c \in Calls :
             SandboxCommitStep(c)
             => LET o == call[c].order_id
                    reference == SandboxReference(call[c].provider, o)
                IN  /\ orders'[o] = [orders[o] EXCEPT !.payment_provider = call[c].provider,
                                                      !.payment_reference = reference]
                    /\ call'[c].answer.kind = "session"
                    /\ call'[c].answer.payment_reference = reference
                    /\ \A q \in DOMAIN orders : q # o => orders'[q] = orders[q]
                    /\ order_lines' = order_lines
                    /\ products' = products
       /\ \A o \in DOMAIN orders :
             orders'[o].status # orders[o].status
             => \E c \in Calls : /\ PayCommitStep(c)
                                 /\ call[c].handler \in {"webhook", "stripe_webhook"}
                                 /\ call[c].order_id = o
                                 /\ call'[c].answer.kind = "accepted"]_vars

(* A step of call c, a webhook of either form. *)
WebhookStep(c) ==
    call'[c] # call[c] /\ call'[c].handler \in {"webhook", "stripe_webhook"}

(* C25: a step of a webhook, whatever its event, changes no product    *)
(* (no stock comes back when an order is cancelled or refunded), adds  *)
(* and removes no order and no line, and changes no order but the one  *)
(* it names, of which it changes at most the status and the            *)
(* payment_reference.                                                  *)
C25_WebhookFrame ==
    [][\A c \in Calls :
          WebhookStep(c)
          => /\ products' = products
             /\ order_lines' = order_lines
             /\ Len(orders') = Len(orders)
             /\ \A o \in DOMAIN orders :
                   IF o = call'[c].order_id
                   THEN orders'[o] = [orders[o] EXCEPT
                                         !.status = orders'[o].status,
                                         !.payment_reference = orders'[o].payment_reference]
                   ELSE orders'[o] = orders[o]]_vars

(* Of two orders, the first was cancelled by a payment_failed webhook  *)
(* and then refunded by a Stripe event; the second is as it was        *)
(* created, the four lines are there and the stock of the product sold *)
(* is still down.                                                      *)
C25_Witness ==
    /\ Len(orders) = 2
    /\ Len(order_lines) = 4
    /\ \E c, d \in Calls :
          /\ call[c].handler = "webhook" /\ call[c].event = "payment_failed"
          /\ call[c].order_id = 1 /\ call[c].answer.status = "cancelled"
          /\ call[d].handler = "stripe_webhook" /\ call[d].event = "charge.refunded"
          /\ call[d].order_id = 1 /\ call[d].answer.status = "refunded"
    /\ orders[1].status = "refunded"
    /\ orders[2] = [orders[2] EXCEPT !.status = "pending", !.payment_provider = "manual",
                                     !.payment_reference = ""]
    /\ products[1].stock < InitialStock(1)

(* The step in which call c, a Stripe event that names order o, has    *)
(* loaded it.                                                          *)
StripeLoadStep(c, o) ==
    /\ call[c].pc = "idle"
    /\ call'[c].pc # "idle"
    /\ call'[c].handler = "stripe_webhook"
    /\ call'[c].order_id = o

(* C26: a Stripe event that has loaded its order sets on it the status *)
(* its type maps to: paid for checkout.session.completed, with the     *)
(* payment_intent, else the session id, as payment_reference;          *)
(* cancelled for checkout.session.expired and                          *)
(* payment_intent.payment_failed; refunded for charge.refunded and     *)
(* payment_intent.canceled, the reference kept; any other type is      *)
(* answered PaymentProviderError at once and no table changes.  The    *)
(* commit of the event stores that status and reference in an order    *)
(* no other call has changed since the load.                           *)
C26_StripeEvents ==
    [][\A c \in Calls : \A o \in DOMAIN orders :
          /\ StripeLoadStep(c, o)
                => LET event == call'[c].event
                       was == CopyOf(orders[o])
                   IN  IF event \in DOMAIN MappedStatus
                       THEN /\ call'[c].pc = "commit"
                            /\ call'[c].copy.status = MappedStatus[event]
                            /\ call'[c].copy.payment_provider = was.payment_provider
                            /\ call'[c].copy.payment_reference =
                                  IF event # "checkout.session.completed"
                                  THEN was.payment_reference
                                  ELSE IF call'[c].intent # Absent THEN call'[c].intent
                                  ELSE IF call'[c].object_id # Absent THEN call'[c].object_id
                                  ELSE was.payment_reference
                            /\ UNCHANGED db
                       ELSE /\ event \in StripeEvents
                            /\ call'[c].pc = "done"
                            /\ call'[c].answer.kind = "PaymentProviderError"
                            /\ call'[c].answer.msg = "Unhandled Stripe event"
                            /\ UNCHANGED db
          /\ (/\ PayCommitStep(c)
              /\ call[c].handler = "stripe_webhook"
              /\ call[c].order_id = o
              /\ CopyOf(orders[o]) = call[c].loaded)
                => /\ CopyOf(orders'[o]) = call[c].copy
                   /\ call'[c].answer.kind = "accepted"
                   /\ call'[c].answer.status = MappedStatus[call[c].event]]_vars

(* A checkout.session.completed without payment_intent has paid the    *)
(* order under the session id, and an invoice.paid event for the same  *)
(* order was then refused; the order is as the first event left it.    *)
C26_Witness ==
    \E c, d \in Calls :
        /\ call[c].handler = "stripe_webhook"
        /\ call[c].event = "checkout.session.completed"
        /\ call[c].intent = Absent
        /\ call[c].answer.kind = "accepted"
        /\ call[d].handler = "stripe_webhook"
        /\ call[d].event = "invoice.paid"
        /\ call[d].order_id = call[c].order_id
        /\ call[d].answer.msg = "Unhandled Stripe event"
        /\ orders[call[c].order_id].status = "paid"
        /\ orders[call[c].order_id].payment_reference = "cs_evt"

(* Order o is another user's order under the key of request r. *)
CollidesWith(r, o) ==
    /\ orders[o].idempotency_key = req'[r].key
    /\ orders[o].user_id # req'[r].user

(* C27: a step of a create_order call whose key is the key of an order *)
(* of another user leaves that order and its lines as they are; the    *)
(* call never ends with that order; it ends either having created an   *)
(* order of its own user, or with created = false and no order, line   *)
(* or product changed.                                                 *)
C27_CrossUserIsolation ==
    [][\A r \in Reqs : \A o \in DOMAIN orders :
          (req'[r] # req[r] /\ CollidesWith(r, o))
          => /\ orders'[o] = orders[o]
             /\ SelectSeq(order_lines', LAMBDA line : line.order_id = o) = LinesOf(o)
             /\ IF req'[r].pc = "done"
                THEN /\ req'[r].result.order_id # o
                     /\ req'[r].result.kind # "returned"
                     /\ IF req'[r].result.created
                        THEN /\ req'[r].result.order_id \notin DOMAIN orders
                             /\ orders'[req'[r].result.order_id].user_id = req'[r].user
                        ELSE UNCHANGED db
                ELSE UNCHANGED db]_vars

(* User 1 has an order under a key; user 2 sent the same key with a    *)
(* payload the stock covers and the call failed at its commit; there   *)
(* is one order, user 1's, and the stock is what that order left.      *)
C27_Witness ==
    \E r1, r2 \in Reqs :
        /\ req[r1].result.kind = "created"
        /\ req[r1].user = 1 /\ req[r2].user = 2
        /\ req[r2].key = req[r1].key
        /\ req[r2].result.kind = "IntegrityError"
        /\ Len(orders) = 1
        /\ orders[1].user_id = 1
        /\ \A p \in DOMAIN products :
              products[p].stock = InitialStock(p) - Ordered(req[r1].items, p)

(* C28: the commit of a Stripe event changes neither the status nor    *)
(* the payment_reference of an order whose payment_provider is not     *)
(* "stripe".                                                           *)
C28_StripeOnlyStripeOrders ==
    [][\A c \in Calls :
          (/\ PayCommitStep(c)
           /\ call[c].handler = "stripe_webhook"
           /\ orders[call[c].order_id].payment_provider # "stripe")
          => /\ orders'[call[c].order_id].status = orders[call[c].order_id].status
             /\ orders'[call[c].order_id].payment_reference =
                   orders[call[c].order_id].payment_reference]_vars

(* C29: the commit of an init_payment call changes neither the         *)
(* payment_reference nor the payment_provider of an order that is      *)
(* paid.                                                               *)
C29_SettlementKept ==
    [][\A c \in Calls :
          (/\ PayCommitStep(c)
           /\ call[c].handler = "init_payment"
           /\ orders[call[c].order_id].status = "paid")
          => /\ orders'[call[c].order_id].payment_reference =
                   orders[call[c].order_id].payment_reference
             /\ orders'[call[c].order_id].payment_provider =
                   orders[call[c].order_id].payment_provider]_vars

(* The steps of request r at the orders endpoint: any step of it, the  *)
(* commit of its clear_cart, and the step in which it is answered.     *)
RequestStep(r) == req'[r] # req[r] \/ resp'[r] # resp[r]
ClearStep(r) == resp[r].pc = "clear" /\ resp'[r].pc = "email"
ResponseStep(r) == resp[r].pc # "done" /\ resp'[r].pc = "done"

(* C30 as stated: a request that has created an order leaves its       *)
(* caller's cart empty when its clear_cart commits and is answered     *)
(* 201; no other step of a request changes a cart; a request that      *)
(* created no order is answered 200 for an order that was there and    *)
(* 4xx when it was refused; the step that sends the email, or fails    *)
(* to, changes no order, line or product.                              *)
C30_AsStated ==
    [][\A r \in Reqs :
          RequestStep(r)
          => /\ IF ClearStep(r)
                THEN req[r].result.created /\ cart'[req[r].user] = {}
                ELSE cart' = cart
             /\ ResponseStep(r)
                   => /\ resp'[r].status = IF req[r].result.created THEN 201
                                           ELSE StatusOf(req[r].result.kind)
                      /\ UNCHANGED db]_vars

(* C30 amended: the orders endpoint changes a cart only in a request   *)
(* that has created an order, at the commit of its clear_cart, which   *)
(* deletes from the caller's cart the items clear_cart read and leaves *)
(* it empty when the cart held no other item; no other step of a       *)
(* request, be it a replay (200) or refused (4xx), changes a cart.  A  *)
(* request is answered 201 only after it created an order and its      *)
(* clear_cart committed, whether the email was sent or not, and the    *)
(* answer changes no order, line or product; when the commit of        *)
(* clear_cart fails the request is answered 500 and the order stays.   *)
C30_CartCleared ==
    [][\A r \in Reqs :
          RequestStep(r)
          => /\ IF ClearStep(r)
                THEN /\ req[r].result.created
                     /\ cart' = [cart EXCEPT ![req[r].user] = @ \ resp[r].items]
                     /\ cart[req[r].user] \subseteq resp[r].items => cart'[req[r].user] = {}
                     /\ UNCHANGED db
                ELSE cart' = cart
             /\ ResponseStep(r)
                   => /\ resp'[r].status =
                            IF ~req[r].result.created THEN StatusOf(req[r].result.kind)
                            ELSE IF resp[r].pc = "email" THEN 201
                            ELSE 500
                      /\ resp'[r].status = 201 => resp'[r].email \in EmailOutcomes
                      /\ req[r].result.created
                            => /\ req[r].result.order_id \in DOMAIN orders'
                               /\ orders'[req[r].result.order_id].user_id = req[r].user
                      /\ UNCHANGED db]_vars

(* A request created an order, emptied the cart and was answered 201   *)
(* though the email failed; the user put a product in the cart again   *)
(* and a replay of the request was answered 200: the cart still holds  *)
(* the product, there is one order and the stock is down once.         *)
C30_Witness ==
    \E r1, r2 \in Reqs :
        /\ req[r1].result.created
        /\ resp[r1].pc = "done" /\ resp[r1].status = 201
        /\ resp[r1].email = "EmailSendError"
        /\ resp[r1].items = InitialCart[req[r1].user]
        /\ req[r2].user = req[r1].user
        /\ req[r2].result.kind = "returned"
        /\ resp[r2].pc = "done" /\ resp[r2].status = 200
        /\ cart[req[r1].user] = {2}
        /\ Len(orders) = 1
        /\ products[1].stock = InitialStock(1) - 2
====
